---- MODULE Spec2Model ----
(***************************************************************************)
(* Weight packing codec of QuantizationInDepth_P4.ipynb: pack_weights and   *)
(* unpack_weights over torch.uint8 tensors, modelled one loop iteration at  *)
(* a time, together with a caller that feeds the result of one call to the  *)
(* opposite operation with the same bits (pack -> unpack -> pack ...).      *)
(***************************************************************************)
EXTENDS Integers, Sequences, FiniteSets, TLC

VARIABLES
    op,               \* "pack" | "unpack": the function being executed
    uint8tensor,      \* the argument tensor of the current call (uint8 cells)
    bits,             \* the bits argument of the current call
    pc,               \* "call" | "loop" | "returned" | "raised"
    num_values,       \* local num_values
    num_steps,        \* local num_steps
    mask,             \* local mask (unpack_weights only)
    i,                \* outer loop index
    j,                \* inner loop index
    unpacked_idx,     \* local unpacked_idx
    packed_tensor,    \* output buffer of pack_weights
    unpacked_tensor,  \* output buffer of unpack_weights
    error,            \* the exception raised: [type, arg] or NoError
    hist,             \* the completed calls of the caller, oldest first
    other,            \* the frame of a second, suspended invocation (or NoFrame)
    shared,           \* whether the two invocations read the same tensor object
    atcall,           \* [op, arg, bits] of each invocation when it was called
    quant             \* the call of get_quant_params / quantize_tensor (or NoQuant)

\* the variables of the second invocation
concvars == << other, shared, atcall >>

vars == << op, uint8tensor, bits, pc, num_values, num_steps, mask, i, j,
           unpacked_idx, packed_tensor, unpacked_tensor, error, hist,
           other, shared, atcall, quant >>

----------------------------------------------------------------------------
(* Bounds of the model. *)

\* longest tensor handed to pack_weights by the first call
MaxLen == 4
\* longest tensor handed to unpack_weights by the first call
MaxBytes == 3
\* number of calls the caller chains
MaxCalls == 4

\* element values of the tensors handed to pack_weights
PackVals == {0, 1, 2, 3, 4, 15, 255}
\* element values of the tensors handed to unpack_weights
ByteVals == {0, 15, 177, 255}
\* values of the bits argument
BitWidths == {-8} \cup (-1 .. 8) \cup {16}

SeqsUpTo(S, n) == UNION { [1 .. k -> S] : k \in 0 .. n }

----------------------------------------------------------------------------
(* Python and torch.uint8 arithmetic. *)

\* Python's a // b (floor division), b # 0
PyFloorDiv(a, b) == IF b > 0 THEN a \div b ELSE (-a) \div (-b)

\* Python's a % b, b # 0
PyMod(a, b) == a - b * PyFloorDiv(a, b)

\* torch.uint8 a << n: the shifted value kept in 8 bits
\* (variant: the cell is a signed int8, the top bit is lost)
LShift8_7Bit(a, n) == (a * (2 ^ n)) % 128
LShift8(a, n) == (a * (2 ^ n)) % 256

\* torch.uint8 a >> n
\* (variant: the shift goes left instead of right)
RShift8_Left(a, n) == (a * (2 ^ n)) % 256
RShift8(a, n) == a \div (2 ^ n)

\* bitwise AND of two naturals
RECURSIVE BitAnd(_, _)
BitAnd(a, b) ==
    IF a = 0 \/ b = 0 THEN 0
    ELSE (a % 2) * (b % 2) + 2 * BitAnd(a \div 2, b \div 2)

\* bitwise OR of two naturals
RECURSIVE BitOr(_, _)
BitOr(a, b) ==
    IF a = 0 THEN b
    ELSE IF b = 0 THEN a
    ELSE (IF a % 2 = 1 \/ b % 2 = 1 THEN 1 ELSE 0) + 2 * BitOr(a \div 2, b \div 2)

\* torch.zeros((n,), dtype=torch.uint8), n >= 0
\* (variant: torch.empty, the cells hold what the allocator last freed)
Zeros_Uninit(n) ==
    [k \in 1 .. n |-> IF other.pc \in {"returned", "raised"} THEN 255 ELSE 0]
\* (variant: one cell too few)
Zeros_Short(n) == [k \in 1 .. n - 1 |-> 0]
\* (variant: one cell too many)
Zeros_Extra(n) == [k \in 1 .. n + 1 |-> 0]
Zeros(n) == [k \in 1 .. n |-> 0]

NoError == [type |-> "none", arg |-> 0]

\* no second invocation
NoFrame == [id |-> 0, pc |-> "none"]

\* no call of the linear quantization functions
NoQuant == [pc |-> "none"]

----------------------------------------------------------------------------
(* pack_weights *)

\* the alignment check: uint8tensor.shape[0] * bits % 8 != 0
\* (variant: the length is tested against 8 // bits, as the comment words it)
PackMisaligned_ByRatio(len, b) ==
    IF b >= 1 /\ b <= 8 THEN PyMod(len, PyFloorDiv(8, b)) # 0 ELSE FALSE
PackMisaligned(len, b) == PyMod(len * b, 8) # 0

\* num_values = uint8tensor.shape[0] * bits // 8
\* (variant: one output cell per input element)
PackNumValues_Len(len, b) == len
\* (variant: one cell too many is allocated)
PackNumValues_PlusOne(len, b) == PyFloorDiv(len * b, 8) + 1
\* (variant: the division is taken before the multiplication)
PackNumValues_PerStep(len, b) == PyFloorDiv(len, 8) * b
PackNumValues(len, b) == PyFloorDiv(len * b, 8)

\* num_steps = 8 // bits
\* (variant: one step too many per byte)
NumSteps_OneMore(b) == PyFloorDiv(8, b) + 1
NumSteps(b) == PyFloorDiv(8, b)

\* the shift applied at inner position jj: bits * j
\* (variant: the first element takes the most significant field)
ShiftAmount_MsbFirst(b, jj) == b * (NumSteps(b) - 1 - jj)
ShiftAmount(b, jj) == b * jj

\* packed_tensor[i] |= uint8tensor[unpacked_idx] << (bits * j)
\* (variant: the shift is bits * (j + 1))
PackCell_ShiftNext(cell, value, b, jj) ==
    BitOr(cell, LShift8(value, ShiftAmount(b, jj + 1)))
\* (variant: the cell is assigned, = instead of |=)
PackCell_Overwrite(cell, value, b, jj) == LShift8(value, ShiftAmount(b, jj))
\* (variant: the shift is left out)
PackCell_NoShift(cell, value, b, jj) == BitOr(cell, value)
PackCell(cell, value, b, jj) == BitOr(cell, LShift8(value, ShiftAmount(b, jj)))

\* the input tensor after an iteration of pack_weights: the shift builds a
\* new tensor, the cell of uint8tensor it reads is not written
\* (variant: the shift is done in place, uint8tensor[unpacked_idx] <<= ...)
PackInputAfter_InPlace(t, idx, b, jj) ==
    [t EXCEPT ![idx + 1] = LShift8(@, ShiftAmount(b, jj))]
PackInputAfter(t, idx, b, jj) == t

\* entry of pack_weights up to the first loop test
PackEnter ==
    /\ pc = "call"
    /\ op = "pack"
    /\ UNCHANGED << concvars, quant >>
    /\ IF PackMisaligned(Len(uint8tensor), bits)
       THEN \* raise ValueError(f"... multiple of {8 // bits}")
            /\ pc' = "raised"
            /\ error' = [type |-> "ValueError", arg |-> PyFloorDiv(8, bits)]
            /\ UNCHANGED << num_values, num_steps, packed_tensor >>
       ELSE IF bits = 0
       THEN \* num_steps = 8 // bits raises ZeroDivisionError
            /\ pc' = "raised"
            /\ error' = [type |-> "ZeroDivisionError", arg |-> 0]
            /\ num_values' = PackNumValues(Len(uint8tensor), bits)
            /\ UNCHANGED << num_steps, packed_tensor >>
       ELSE IF PackNumValues(Len(uint8tensor), bits) < 0
       THEN \* torch.zeros with a negative dimension raises RuntimeError
            /\ pc' = "raised"
            /\ error' = [type |-> "RuntimeError", arg |-> 0]
            /\ num_values' = PackNumValues(Len(uint8tensor), bits)
            /\ num_steps' = NumSteps(bits)
            /\ UNCHANGED packed_tensor
       ELSE /\ pc' = "loop"
            /\ num_values' = PackNumValues(Len(uint8tensor), bits)
            /\ num_steps' = NumSteps(bits)
            /\ packed_tensor' = Zeros(PackNumValues(Len(uint8tensor), bits))
            /\ UNCHANGED error
    /\ i' = 0
    /\ j' = 0
    /\ unpacked_idx' = 0
    /\ UNCHANGED << op, uint8tensor, bits, mask, unpacked_tensor, hist >>

\* one iteration of the inner loop body of pack_weights
PackStep ==
    /\ pc = "loop"
    /\ op = "pack"
    /\ UNCHANGED << concvars, quant >>
    /\ i < num_values
    /\ j < num_steps
    /\ IF unpacked_idx >= Len(uint8tensor)
       THEN \* uint8tensor[unpacked_idx] raises IndexError
            /\ pc' = "raised"
            /\ error' = [type |-> "IndexError", arg |-> unpacked_idx]
            /\ UNCHANGED << uint8tensor, packed_tensor, unpacked_idx, i, j >>
       ELSE /\ packed_tensor' =
                  [packed_tensor EXCEPT ![i + 1] =
                      PackCell(@, uint8tensor[unpacked_idx + 1], bits, j)]
            /\ uint8tensor' = PackInputAfter(uint8tensor, unpacked_idx, bits, j)
            /\ unpacked_idx' = unpacked_idx + 1
            /\ IF j + 1 < num_steps
               THEN /\ j' = j + 1
                    /\ i' = i
               ELSE /\ j' = 0
                    /\ i' = i + 1
            /\ UNCHANGED << pc, error >>
    /\ UNCHANGED << op, bits, num_values, num_steps, mask,
                    unpacked_tensor, hist >>

\* the loops are exhausted: return packed_tensor
PackReturn ==
    /\ pc = "loop"
    /\ op = "pack"
    /\ UNCHANGED << concvars, quant >>
    /\ (i >= num_values \/ j >= num_steps)
    /\ pc' = "returned"
    /\ UNCHANGED << op, uint8tensor, bits, num_values, num_steps, mask, i, j,
                    unpacked_idx, packed_tensor, unpacked_tensor, error, hist >>

----------------------------------------------------------------------------
(* unpack_weights *)

\* num_values = uint8tensor.shape[0] * 8 // bits
\* (variant: the division by bits is left out)
UnpackNumValues_NoDiv(len, b) == len * 8
\* (variant: the formula of pack_weights is used)
UnpackNumValues_AsPack(len, b) == PyFloorDiv(len * b, 8)
UnpackNumValues(len, b) == PyFloorDiv(len * 8, b)

\* mask = 2 ** bits - 1 (a float below zero for negative bits, never used:
\* the inner loop does not run then)
\* (variant: the mask keeps the whole byte)
Mask_AllOnes(b) == 255
\* (variant: the - 1 is left out)
Mask_OneMore(b) == IF b >= 0 THEN 2 ^ b ELSE -1
Mask(b) == IF b >= 0 THEN (2 ^ b) - 1 ELSE -1

\* val = uint8tensor[i] >> (bits * j); val & mask
\* (variant: the shift is left out)
UnpackCell_NoShift(byte, b, jj, m) == BitAnd(byte, m)
UnpackCell(byte, b, jj, m) == BitAnd(RShift8(byte, ShiftAmount(b, jj)), m)

\* the input tensor after an iteration of unpack_weights: val is a new
\* tensor, the cell of uint8tensor it is read from is not written
\* (variant: the shift is done in place, uint8tensor[i] >>= ...)
UnpackInputAfter_InPlace(t, ii, b, jj) ==
    [t EXCEPT ![ii + 1] = RShift8(@, ShiftAmount(b, jj))]
UnpackInputAfter(t, ii, b, jj) == t

\* entry of unpack_weights up to the first loop test
UnpackEnter ==
    /\ pc = "call"
    /\ op = "unpack"
    /\ UNCHANGED << concvars, quant >>
    /\ IF bits = 0
       THEN \* num_values = ... // bits raises ZeroDivisionError
            /\ pc' = "raised"
            /\ error' = [type |-> "ZeroDivisionError", arg |-> 0]
            /\ UNCHANGED << num_values, num_steps, mask, unpacked_tensor >>
       ELSE IF UnpackNumValues(Len(uint8tensor), bits) < 0
       THEN \* torch.zeros with a negative dimension raises RuntimeError
            /\ pc' = "raised"
            /\ error' = [type |-> "RuntimeError", arg |-> 0]
            /\ num_values' = UnpackNumValues(Len(uint8tensor), bits)
            /\ num_steps' = NumSteps(bits)
            /\ UNCHANGED << mask, unpacked_tensor >>
       ELSE /\ pc' = "loop"
            /\ num_values' = UnpackNumValues(Len(uint8tensor), bits)
            /\ num_steps' = NumSteps(bits)
            /\ unpacked_tensor' = Zeros(UnpackNumValues(Len(uint8tensor), bits))
            /\ mask' = Mask(bits)
            /\ UNCHANGED error
    /\ i' = 0
    /\ j' = 0
    /\ unpacked_idx' = 0
    /\ UNCHANGED << op, uint8tensor, bits, packed_tensor, hist >>

\* one iteration of the inner loop body of unpack_weights
UnpackStep ==
    /\ pc = "loop"
    /\ op = "unpack"
    /\ UNCHANGED << concvars, quant >>
    /\ i < Len(uint8tensor)
    /\ j < num_steps
    /\ IF unpacked_idx >= Len(unpacked_tensor)
       THEN \* unpacked_tensor[unpacked_idx] = ... raises IndexError
            /\ pc' = "raised"
            /\ error' = [type |-> "IndexError", arg |-> unpacked_idx]
            /\ UNCHANGED << uint8tensor, unpacked_tensor, unpacked_idx, i, j >>
       ELSE /\ unpacked_tensor' =
                  [unpacked_tensor EXCEPT ![unpacked_idx + 1] =
                      UnpackCell(uint8tensor[i + 1], bits, j, mask)]
            /\ uint8tensor' = UnpackInputAfter(uint8tensor, i, bits, j)
            /\ unpacked_idx' = unpacked_idx + 1
            /\ IF j + 1 < num_steps
               THEN /\ j' = j + 1
                    /\ i' = i
               ELSE /\ j' = 0
                    /\ i' = i + 1
            /\ UNCHANGED << pc, error >>
    /\ UNCHANGED << op, bits, num_values, num_steps, mask,
                    packed_tensor, hist >>

\* the loops are exhausted: return unpacked_tensor
UnpackReturn ==
    /\ pc = "loop"
    /\ op = "unpack"
    /\ UNCHANGED << concvars, quant >>
    /\ (i >= Len(uint8tensor) \/ j >= num_steps)
    /\ pc' = "returned"
    /\ UNCHANGED << op, uint8tensor, bits, num_values, num_steps, mask, i, j,
                    unpacked_idx, packed_tensor, unpacked_tensor, error, hist >>

----------------------------------------------------------------------------
(* The caller: the notebook hands the tensor one function returned to the   *)
(* other function, with the same bits.                                      *)

\* the tensor the current call returned
Result == IF op = "pack" THEN packed_tensor ELSE unpacked_tensor

Other(o) == IF o = "pack" THEN "unpack" ELSE "pack"

CallNext ==
    /\ pc = "returned"
    /\ Len(hist) + 1 < MaxCalls
    /\ UNCHANGED << concvars, quant >>
    /\ hist' = Append(hist, [op |-> op, arg |-> uint8tensor, bits |-> bits,
                             result |-> Result])
    /\ op' = Other(op)
    /\ uint8tensor' = Result
    /\ pc' = "call"
    /\ num_values' = 0
    /\ num_steps' = 0
    /\ mask' = 0
    /\ i' = 0
    /\ j' = 0
    /\ unpacked_idx' = 0
    /\ packed_tensor' = << >>
    /\ unpacked_tensor' = << >>
    /\ UNCHANGED << bits, error >>

----------------------------------------------------------------------------
Init ==
    /\ op \in {"pack", "unpack"}
    /\ bits \in BitWidths
    /\ uint8tensor \in (IF op = "pack" THEN SeqsUpTo(PackVals, MaxLen)
                                     ELSE SeqsUpTo(ByteVals, MaxBytes))
    /\ pc = "call"
    /\ num_values = 0
    /\ num_steps = 0
    /\ mask = 0
    /\ i = 0
    /\ j = 0
    /\ unpacked_idx = 0
    /\ packed_tensor = << >>
    /\ unpacked_tensor = << >>
    /\ error = NoError
    /\ hist = << >>
    /\ other = NoFrame
    /\ shared = FALSE
    /\ atcall = << >>
    /\ quant = NoQuant

Next ==
    \/ PackEnter
    \/ PackStep
    \/ PackReturn
    \/ UnpackEnter
    \/ UnpackStep
    \/ UnpackReturn
    \/ CallNext

Spec == Init /\ [][Next]_vars

----------------------------------------------------------------------------
(* The two functions as a whole: what a call that runs alone ends with.     *)

Returned(t) == [pc |-> "returned", error |-> NoError, result |-> t]
Raised(type, arg) ==
    [pc |-> "raised", error |-> [type |-> type, arg |-> arg], result |-> << >>]

\* the loops of pack_weights from iteration idx on (idx is unpacked_idx,
\* i = idx // num_steps, j = idx % num_steps)
RECURSIVE PackLoop(_, _, _, _)
PackLoop(packed, t, b, idx) ==
    IF NumSteps(b) <= 0 \/ idx >= Len(packed) * NumSteps(b)
    THEN Returned(packed)
    ELSE IF idx >= Len(t)
    THEN Raised("IndexError", idx)
    ELSE PackLoop([packed EXCEPT ![(idx \div NumSteps(b)) + 1] =
                      PackCell(@, t[idx + 1], b, idx % NumSteps(b))],
                  PackInputAfter(t, idx, b, idx % NumSteps(b)), b, idx + 1)

pack_weights(t, b) ==
    IF PackMisaligned(Len(t), b) THEN Raised("ValueError", PyFloorDiv(8, b))
    ELSE IF b = 0 THEN Raised("ZeroDivisionError", 0)
    ELSE IF PackNumValues(Len(t), b) < 0 THEN Raised("RuntimeError", 0)
    ELSE PackLoop(Zeros(PackNumValues(Len(t), b)), t, b, 0)

\* the loops of unpack_weights from iteration idx on
RECURSIVE UnpackLoop(_, _, _, _)
UnpackLoop(unpacked, t, b, idx) ==
    IF NumSteps(b) <= 0 \/ idx >= Len(t) * NumSteps(b)
    THEN Returned(unpacked)
    ELSE IF idx >= Len(unpacked)
    THEN Raised("IndexError", idx)
    ELSE UnpackLoop([unpacked EXCEPT ![idx + 1] =
                        UnpackCell(t[(idx \div NumSteps(b)) + 1], b,
                                   idx % NumSteps(b), Mask(b))],
                    UnpackInputAfter(t, idx \div NumSteps(b), b, idx % NumSteps(b)),
                    b, idx + 1)

unpack_weights(t, b) ==
    IF b = 0 THEN Raised("ZeroDivisionError", 0)
    ELSE IF UnpackNumValues(Len(t), b) < 0 THEN Raised("RuntimeError", 0)
    ELSE UnpackLoop(Zeros(UnpackNumValues(Len(t), b)), t, b, 0)

\* what the call c = [op, arg, bits] ends with when it runs alone
Alone(c) ==
    IF c.op = "pack" THEN pack_weights(c.arg, c.bits)
    ELSE unpack_weights(c.arg, c.bits)

----------------------------------------------------------------------------
(* Two invocations whose steps interleave: one runs, the other is           *)
(* suspended; a switch suspends the running one and resumes the other.      *)
(* They read the same tensor object (shared) or one tensor each.            *)

\* longest tensor handed to the two invocations
MaxConcLen == 2
\* element values of their tensors
ConcVals == {3, 177}
\* values of their bits arguments
ConcBits == {0, 2, 3, 4, 8}

\* the frame of the running invocation
Running ==
    [id |-> 3 - other.id, op |-> op, bits |-> bits, uint8tensor |-> uint8tensor,
     pc |-> pc, num_values |-> num_values, num_steps |-> num_steps,
     mask |-> mask, i |-> i, j |-> j, unpacked_idx |-> unpacked_idx,
     packed_tensor |-> packed_tensor, unpacked_tensor |-> unpacked_tensor,
     error |-> error]

\* the frame of an invocation that has just been called
Called(id, o, b, t) ==
    [id |-> id, op |-> o, bits |-> b, uint8tensor |-> t,
     pc |-> "call", num_values |-> 0, num_steps |-> 0,
     mask |-> 0, i |-> 0, j |-> 0, unpacked_idx |-> 0,
     packed_tensor |-> << >>, unpacked_tensor |-> << >>,
     error |-> NoError]

Finished(f) == f.pc \in {"returned", "raised"}

\* the scheduler suspends the running invocation and resumes the other one;
\* a shared tensor stays where it is, with the content it has now
Switch ==
    /\ other # NoFrame
    /\ ~ Finished(other)
    /\ other' = Running
    /\ op' = other.op
    /\ bits' = other.bits
    /\ uint8tensor' = IF shared THEN uint8tensor ELSE other.uint8tensor
    /\ pc' = other.pc
    /\ num_values' = other.num_values
    /\ num_steps' = other.num_steps
    /\ mask' = other.mask
    /\ i' = other.i
    /\ j' = other.j
    /\ unpacked_idx' = other.unpacked_idx
    /\ packed_tensor' = other.packed_tensor
    /\ unpacked_tensor' = other.unpacked_tensor
    /\ error' = other.error
    /\ UNCHANGED << hist, shared, atcall, quant >>

InitConc ==
    /\ op \in {"pack", "unpack"}
    /\ bits \in ConcBits
    /\ uint8tensor \in SeqsUpTo(ConcVals, MaxConcLen)
    /\ pc = "call"
    /\ num_values = 0
    /\ num_steps = 0
    /\ mask = 0
    /\ i = 0
    /\ j = 0
    /\ unpacked_idx = 0
    /\ packed_tensor = << >>
    /\ unpacked_tensor = << >>
    /\ error = NoError
    /\ hist = << >>
    /\ quant = NoQuant
    /\ shared \in BOOLEAN
    /\ \E o \in {"pack", "unpack"}, b \in ConcBits,
          t \in SeqsUpTo(ConcVals, MaxConcLen) :
          /\ shared => t = uint8tensor
          /\ other = Called(2, o, b, t)
          /\ atcall = << [op |-> op, arg |-> uint8tensor, bits |-> bits],
                         [op |-> o, arg |-> t, bits |-> b] >>

NextConc ==
    \/ PackEnter
    \/ PackStep
    \/ PackReturn
    \/ UnpackEnter
    \/ UnpackStep
    \/ UnpackReturn
    \/ Switch

SpecConc == InitConc /\ [][NextConc]_vars

----------------------------------------------------------------------------
(* Vocabulary of the properties. *)

\* the supported bit widths
Supported == {1, 2, 4, 8}

\* every element of v fits in b bits
InRange(v, b) == \A k \in 1 .. Len(v) : v[k] <= (2 ^ b) - 1

\* n is a multiple of 8
MultipleOf8(n) == \E q \in (IF n < 0 THEN n ELSE -n) .. (IF n < 0 THEN -n ELSE n) : n = 8 * q

\* the calls that have returned, oldest first, the current one included
Completed ==
    IF pc = "returned"
    THEN Append(hist, [op |-> op, arg |-> uint8tensor, bits |-> bits,
                       result |-> Result])
    ELSE hist

\* the value of the byte whose fields are n consecutive elements of v from
\* index first (1-based), element jj of them weighing 2^(b*jj)
RECURSIVE FieldSum(_, _, _, _)
FieldSum(v, b, first, n) ==
    IF n = 0 THEN 0
    ELSE FieldSum(v, b, first, n - 1) + v[first + n - 1] * (2 ^ (b * (n - 1)))

----------------------------------------------------------------------------
(* C1: round-trip law. Whenever pack_weights(v, bits) has returned for a    *)
(* supported bits and a v of aligned length with every element in           *)
(* [0, 2^bits - 1], and its result is handed to unpack_weights with the     *)
(* same bits, that call does not raise and returns v, element for element.  *)
C1_PackOfValid(h) ==
    /\ h.op = "pack"
    /\ h.bits \in Supported
    /\ MultipleOf8(Len(h.arg) * h.bits)
    /\ InRange(h.arg, h.bits)

C1_RoundTrip ==
    (/\ op = "unpack"
     /\ hist # << >>
     /\ C1_PackOfValid(hist[Len(hist)]))
    => /\ pc # "raised"
       /\ pc = "returned" => unpacked_tensor = hist[Len(hist)].arg

C1_Witness ==
    /\ op = "unpack"
    /\ pc = "returned"
    /\ hist # << >>
    /\ C1_PackOfValid(hist[Len(hist)])
    /\ hist[Len(hist)].arg = << 1, 0, 3, 2 >>
    /\ unpacked_tensor = << 1, 0, 3, 2 >>

(* C2: pack bit layout. For supported bits and in-range v, byte k of the    *)
(* returned buffer is the sum of v[k*(8/bits) + jj] * 2^(bits*jj) over the  *)
(* 8/bits sub-positions jj; pack([1,0,3,2], 2) = [177].                     *)
C2_PackLayout ==
    (/\ op = "pack"
     /\ pc = "returned"
     /\ bits \in Supported
     /\ InRange(uint8tensor, bits))
    => /\ Len(packed_tensor) * (8 \div bits) = Len(uint8tensor)
       /\ \A k \in 1 .. Len(packed_tensor) :
             packed_tensor[k] =
                 FieldSum(uint8tensor, bits, (k - 1) * (8 \div bits) + 1, 8 \div bits)
       /\ (bits = 2 /\ uint8tensor = << 1, 0, 3, 2 >>) => packed_tensor = << 177 >>

C2_Witness ==
    /\ op = "pack"
    /\ pc = "returned"
    /\ bits = 2
    /\ uint8tensor = << 1, 0, 3, 2 >>
    /\ packed_tensor = << 177 >>

(* C3: unpack bit layout. For supported bits and any byte buffer p, element *)
(* i*(8/bits)+jj of the returned sequence is p[i] shifted right by bits*jj  *)
(* and reduced to its low bits bits; unpack([177], 2) = [1,0,3,2].          *)
C3_UnpackLayout ==
    (/\ op = "unpack"
     /\ pc = "returned"
     /\ bits \in Supported)
    => /\ Len(unpacked_tensor) = Len(uint8tensor) * (8 \div bits)
       /\ \A k \in 0 .. Len(unpacked_tensor) - 1 :
             unpacked_tensor[k + 1] =
                 (uint8tensor[(k \div (8 \div bits)) + 1]
                     \div (2 ^ (bits * (k % (8 \div bits))))) % (2 ^ bits)
       /\ (bits = 2 /\ uint8tensor = << 177 >>)
             => unpacked_tensor = << 1, 0, 3, 2 >>

C3_Witness ==
    /\ op = "unpack"
    /\ pc = "returned"
    /\ bits = 2
    /\ uint8tensor = << 177 >>
    /\ unpacked_tensor = << 1, 0, 3, 2 >>

(* C4: 4-bit layout. With bits = 4 the first element of a pair is the low   *)
(* nibble of the byte and the second the high nibble, in both directions;   *)
(* pack([15,0], 4) = [15] and unpack([255], 4) = [15,15].                   *)
C4_NibbleCall(h) ==
    /\ (h.op = "pack" /\ InRange(h.arg, 4)) =>
          /\ Len(h.arg) = 2 * Len(h.result)
          /\ \A k \in 1 .. Len(h.result) :
                /\ h.result[k] % 16 = h.arg[2 * k - 1]
                /\ h.result[k] \div 16 = h.arg[2 * k]
    /\ h.op = "unpack" =>
          /\ Len(h.result) = 2 * Len(h.arg)
          /\ \A k \in 1 .. Len(h.arg) :
                /\ h.result[2 * k - 1] = h.arg[k] % 16
                /\ h.result[2 * k] = h.arg[k] \div 16
    /\ (h.op = "pack" /\ h.arg = << 15, 0 >>) => h.result = << 15 >>
    /\ (h.op = "unpack" /\ h.arg = << 255 >>) => h.result = << 15, 15 >>

C4_FourBitLayout ==
    \A n \in 1 .. Len(Completed) :
        Completed[n].bits = 4 => C4_NibbleCall(Completed[n])

C4_Witness ==
    /\ bits = 4
    /\ Len(Completed) = 2
    /\ Completed[1] = [op |-> "pack", arg |-> << 15, 0 >>, bits |-> 4,
                       result |-> << 15 >>]
    /\ Completed[2].op = "unpack"
    /\ Completed[2].result = << 15, 0 >>

(* C5: rejection of out-of-range values. pack_weights never returns a       *)
(* buffer for a supported bits when some element exceeds 2^bits - 1.        *)
C5_OutOfRangeRejected ==
    (/\ op = "pack"
     /\ bits \in Supported
     /\ ~ InRange(uint8tensor, bits))
    => pc # "returned"

C7_InvalidBitWidthPack ==
    (/\ op = "pack"
     /\ bits \notin Supported)
    => pc # "returned"

(* C8: invalid bit width on unpack. For every bits outside {1,2,4,8} and    *)
(* every byte buffer, the empty one included, unpack_weights raises instead *)
(* of returning a sequence.                                                 *)
C8_InvalidBitWidthUnpack ==
    (/\ op = "unpack"
     /\ bits \notin Supported)
    => pc # "returned"

(* C9: unpack-then-pack identity. For a buffer p returned by pack_weights   *)
(* with a supported bits, packing unpack_weights(p, bits) with the same     *)
(* bits does not raise and returns p.                                       *)
C9_Chain ==
    /\ op = "pack"
    /\ Len(hist) >= 2
    /\ hist[Len(hist)].op = "unpack"
    /\ hist[Len(hist) - 1].op = "pack"
    /\ bits \in Supported

C9_UnpackThenPack ==
    C9_Chain
    => /\ pc # "raised"
       /\ pc = "returned" => packed_tensor = hist[Len(hist) - 1].result

C9_Witness ==
    /\ C9_Chain
    /\ pc = "returned"
    /\ hist[Len(hist) - 1].result = << 177 >>
    /\ packed_tensor = << 177 >>

(* C10: pack length law. Whenever pack_weights returns, for any bits, the   *)
(* buffer has exactly len(v) * bits / 8 bytes.                              *)
C10_PackLength ==
    (/\ op = "pack"
     /\ pc = "returned")
    => Len(packed_tensor) * 8 = Len(uint8tensor) * bits

C10_Witness ==
    /\ op = "pack"
    /\ pc = "returned"
    /\ bits = 4
    /\ Len(uint8tensor) = 4
    /\ Len(packed_tensor) = 2

\* the greatest common divisor of two naturals
RECURSIVE Gcd(_, _)
Gcd(a, b) == IF b = 0 THEN a ELSE Gcd(b, a % b)

(* C11: unpack length law. For every byte buffer p and every supported bits *)
(* the sequence unpack_weights returns has exactly len(p) * 8 / bits        *)
(* elements.                                                                *)
C11_UnpackLength ==
    (/\ op = "unpack"
     /\ pc = "returned"
     /\ bits \in Supported)
    => Len(unpacked_tensor) * bits = Len(uint8tensor) * 8

C11_Witness ==
    /\ op = "unpack"
    /\ pc = "returned"
    /\ bits = 2
    /\ Len(uint8tensor) = 3
    /\ Len(unpacked_tensor) = 12

(* C12: no silent drop or pad. Whenever pack_weights returns, for any bits, *)
(* it has read every input element (the number of elements read is         *)
(* len(values)); whenever unpack_weights returns, every cell of its output  *)
(* was decoded from the input (the number of cells written is the output    *)
(* length).                                                                 *)
C12_NoSilentDropOrPad ==
    pc = "returned"
    => /\ op = "pack" => unpacked_idx = Len(uint8tensor)
       /\ op = "unpack" => unpacked_idx = Len(unpacked_tensor)

(* C13: the misaligned-length error names the required multiple. When       *)
(* pack_weights raises its ValueError for a positive bits, the multiple it  *)
(* states is 8 / gcd(8, bits), and a length equal to the stated multiple    *)
(* passes the alignment check.                                              *)
C13_ErrorNamesMultiple ==
    (/\ op = "pack"
     /\ pc = "raised"
     /\ error.type = "ValueError"
     /\ bits >= 1)
    => /\ error.arg * Gcd(8, bits) = 8
       /\ MultipleOf8(error.arg * bits)

(* C14: empty boundary. For every supported bits, pack_weights of the empty *)
(* sequence and unpack_weights of the empty buffer run no loop iteration,   *)
(* raise no error and return the empty tensor.                              *)
C14_EmptyBoundary ==
    (/\ uint8tensor = << >>
     /\ bits \in Supported)
    => /\ pc # "raised"
       /\ ~ ENABLED PackStep
       /\ ~ ENABLED UnpackStep
       /\ pc = "call" => ENABLED (PackEnter \/ UnpackEnter)
       /\ pc = "loop" => ENABLED (PackReturn \/ UnpackReturn)
       /\ pc = "returned" => Result = << >>

C14_Witness ==
    /\ bits \in Supported
    /\ pc = "returned"
    /\ op = "unpack"
    /\ uint8tensor = << >>
    /\ unpacked_tensor = << >>
    /\ Len(hist) = 1
    /\ hist[1].op = "pack"
    /\ hist[1].arg = << >>
    /\ hist[1].result = << >>

(* C19: no 8-bit overflow under the range precondition. For supported bits  *)
(* and an in-range input, at every inner iteration (i, j) of pack_weights   *)
(* the value shifted by bits*j is at most 255, the uint8 shift yields       *)
(* exactly value * 2^(bits*j), and the shifted value shares no bit with     *)
(* what the byte already holds: the byte holds only fields below j and the  *)
(* shifted value lies in field j.                                           *)
C19_AtIteration ==
    /\ op = "pack"
    /\ pc = "loop"
    /\ i < num_values
    /\ j < num_steps
    /\ unpacked_idx < Len(uint8tensor)
    /\ bits \in Supported
    /\ InRange(uint8tensor, bits)

C19_NoOverflow ==
    C19_AtIteration
    => LET value == uint8tensor[unpacked_idx + 1]
           wide == value * (2 ^ (bits * j))
       IN /\ j <= (8 \div bits) - 1
          /\ wide <= 255
          /\ LShift8(value, bits * j) = wide
          /\ wide < 2 ^ (bits * (j + 1))
          /\ packed_tensor[i + 1] < 2 ^ (bits * j)
          /\ BitAnd(packed_tensor[i + 1], LShift8(value, bits * j)) = 0

C19_Witness ==
    /\ C19_AtIteration
    /\ bits = 4
    /\ j = 1
    /\ uint8tensor[unpacked_idx + 1] = 15
    /\ packed_tensor[i + 1] = 15

(* C20: unpack is total on byte buffers. For every supported bits and every *)
(* byte buffer of any length, unpack_weights never raises, every iteration  *)
(* reads and writes inside its tensors, and every state before the return   *)
(* has a next step.                                                         *)
C20_UnpackTotal ==
    (/\ op = "unpack"
     /\ bits \in Supported)
    => /\ pc # "raised"
       /\ pc = "call" => ENABLED UnpackEnter
       /\ pc = "loop" => ENABLED (UnpackStep \/ UnpackReturn)
       /\ (pc = "loop" /\ ENABLED UnpackStep) =>
             /\ i >= 0
             /\ i < Len(uint8tensor)
             /\ unpacked_idx >= 0
             /\ unpacked_idx < Len(unpacked_tensor)

C20_Witness ==
    /\ op = "unpack"
    /\ pc = "returned"
    /\ bits = 1
    /\ hist = << >>
    /\ Len(uint8tensor) = 3
    /\ Len(unpacked_tensor) = 24

(* C15: errors abort the whole operation. Every error of pack_weights is    *)
(* raised with no output cell written (no buffer, complete or partly        *)
(* filled, exists that could be handed over), with the caller's input as it *)
(* was and nothing added to the caller's completed calls; and after the     *)
(* error the call takes no further step, so the caller never receives a     *)
(* result from it.                                                          *)
C15_ErrorsAbort ==
    [][ /\ (op = "pack" /\ pc # "raised" /\ pc' = "raised") =>
              /\ packed_tensor' = << >>
              /\ uint8tensor' = uint8tensor
              /\ hist' = hist
        /\ ~ (op = "pack" /\ pc = "raised") ]_vars

C15_Witness ==
    /\ op = "pack"
    /\ pc = "raised"
    /\ error.type = "RuntimeError"
    /\ Len(uint8tensor) = 2
    /\ packed_tensor = << >>

(* C16: purity. No step of pack_weights or unpack_weights changes the input *)
(* tensor, the bits argument or the caller's record; the only tensor a step *)
(* writes is the output of the function that is running; and in every state *)
(* of a call made with the result of an earlier call the input equals that  *)
(* result, its value at call time.                                          *)
C16_Purity ==
    [][ /\ pc \in {"call", "loop"} =>
              /\ uint8tensor' = uint8tensor
              /\ bits' = bits
              /\ hist' = hist
              /\ op = "pack" => unpacked_tensor' = unpacked_tensor
              /\ op = "unpack" => packed_tensor' = packed_tensor
        /\ hist' # << >> => uint8tensor' = hist'[Len(hist')].result ]_vars

C16_Witness ==
    /\ pc = "loop"
    /\ op = "unpack"
    /\ bits = 2
    /\ unpacked_idx = 3
    /\ hist # << >>
    /\ uint8tensor = << 177 >>
    /\ hist[Len(hist)].result = << 177 >>

\* what an invocation frame has ended with: the tensor counts only when the
\* call returned
Outcome(f) ==
    [pc |-> f.pc, error |-> f.error,
     result |-> IF f.pc # "returned" THEN << >>
                ELSE IF f.op = "pack" THEN f.packed_tensor
                ELSE f.unpacked_tensor]

(* C17: concurrent invocations are independent. With two invocations of     *)
(* pack_weights / unpack_weights whose loop steps interleave in any order,  *)
(* over one shared input tensor or over one tensor each, every invocation   *)
(* that has finished has ended exactly as the same call ends when it runs   *)
(* alone on the input it was called with.                                   *)
C17_Independent ==
    \A f \in {Running, other} :
        Finished(f) => Outcome(f) = Alone(atcall[f.id])

C17_Witness ==
    /\ shared
    /\ pc = "returned"
    /\ op = "pack"
    /\ bits = 4
    /\ packed_tensor = << 51 >>
    /\ other.op = "unpack"
    /\ other.bits = 2
    /\ other.pc = "loop"
    /\ other.unpacked_idx = 5

(* C18: determinism. Two invocations called with the same function, equal   *)
(* input tensors and equal bits end the same way, whatever the order of     *)
(* their steps: both return equal tensors or both raise the same error.     *)
C18_Deterministic ==
    (/\ Finished(Running)
     /\ Finished(other)
     /\ atcall[1] = atcall[2])
    => Outcome(Running) = Outcome(other)

C18_Witness ==
    /\ Finished(other)
    /\ atcall[1] = atcall[2]
    /\ ~ shared
    /\ op = "pack"
    /\ pc = "returned"
    /\ bits = 4
    /\ uint8tensor = << 3, 3 >>
    /\ packed_tensor = << 51 >>
    /\ other.packed_tensor = << 51 >>

----------------------------------------------------------------------------
(* A call that is running keeps running: the interpreter executes the next  *)
(* statement of the function, and the caller makes its next call.           *)
\* longest tensor handed to the first call
MaxFairLen == 2

InitFair ==
    /\ Init
    /\ Len(uint8tensor) <= MaxFairLen

SpecFair == InitFair /\ [][Next]_vars /\ WF_vars(Next)

\* a call with a valid input, about to start
C21_ValidCall ==
    /\ pc = "call"
    /\ bits \in Supported
    /\ op = "pack" => /\ MultipleOf8(Len(uint8tensor) * bits)
                      /\ InRange(uint8tensor, bits)

\* the number of inner-loop iterations the claim states for the current call
C21_Iterations ==
    IF op = "pack" THEN Len(uint8tensor) ELSE Len(uint8tensor) * (8 \div bits)

(* C21: single-pass termination. Every inner-loop iteration moves on to the *)
(* next element (the running index, which counts the iterations, goes up by *)
(* one and never back), and every call with a valid input reaches its       *)
(* return statement, where pack_weights has run exactly len(values)         *)
(* iterations and unpack_weights exactly len(packed) * (8/bits).            *)
C21_SinglePass ==
    /\ [][ (pc = "loop" /\ pc' = "loop") => unpacked_idx' = unpacked_idx + 1 ]_vars
    /\ \A n \in 0 .. MaxCalls :
          (C21_ValidCall /\ Len(hist) = n)
              ~> (/\ Len(hist) = n
                  /\ pc = "returned"
                  /\ unpacked_idx = C21_Iterations)

C21_Witness ==
    /\ op = "pack"
    /\ pc = "returned"
    /\ bits = 2
    /\ Len(hist) = 1
    /\ hist[1].op = "unpack"
    /\ hist[1].arg = << 177 >>
    /\ Len(uint8tensor) = 4
    /\ unpacked_idx = 4
    /\ packed_tensor = << 177 >>

(* C22: unpacked values are in range. For every supported bits and every    *)
(* byte buffer, every cell of the output of unpack_weights, while it is     *)
(* being filled and when it is returned, lies in [0, 2^bits - 1].           *)
C22_UnpackedInRange ==
    (/\ op = "unpack"
     /\ bits \in Supported)
    => \A k \in 1 .. Len(unpacked_tensor) :
          /\ unpacked_tensor[k] >= 0
          /\ unpacked_tensor[k] <= (2 ^ bits) - 1

C22_Witness ==
    /\ op = "unpack"
    /\ pc = "returned"
    /\ bits = 2
    /\ hist = << >>
    /\ uint8tensor = << 255, 177 >>
    /\ unpacked_tensor = << 3, 3, 3, 3, 1, 0, 3, 2 >>

\* the current call packs what unpack_weights returned for a byte buffer
C23_Chain ==
    /\ op = "pack"
    /\ hist # << >>
    /\ hist[Len(hist)].op = "unpack"
    /\ bits \in Supported

(* C23: pack inverts unpack on all byte buffers. For every supported bits   *)
(* and every byte buffer p, pack-produced or not, unpack_weights(p, bits)   *)
(* is a valid input of pack_weights (aligned length, elements in range) and *)
(* pack_weights of it does not raise and returns p: every byte buffer is    *)
(* the image of a valid input.                                              *)
C23_PackInvertsUnpack ==
    C23_Chain
    => /\ MultipleOf8(Len(uint8tensor) * bits)
       /\ InRange(uint8tensor, bits)
       /\ pc # "raised"
       /\ pc = "returned" => packed_tensor = hist[Len(hist)].arg

C23_Witness ==
    /\ C23_Chain
    /\ pc = "returned"
    /\ bits = 1
    /\ Len(hist) = 1
    /\ hist[1].arg = << 177, 255, 15 >>
    /\ packed_tensor = << 177, 255, 15 >>

\* lengths over which the alignment arithmetic is checked
MaxAlignLen == 16

(* C24: pack index invariant. For every positive bits, a length that passes *)
(* the alignment check has num_values * num_steps <= len(values); at the    *)
(* start of every inner iteration (i, j) of pack_weights unpacked_idx is    *)
(* i * num_steps + j and is below len(values), so the read never raises     *)
(* IndexError; and when bits divides 8 the call returns with unpacked_idx   *)
(* equal to len(values).                                                    *)
C24_PackIndex ==
    (/\ op = "pack"
     /\ bits >= 1)
    => /\ \A len \in 0 .. MaxAlignLen :
             ~ PackMisaligned(len, bits)
                 => PackNumValues(len, bits) * NumSteps(bits) <= len
       /\ pc \in {"loop", "returned"} =>
             /\ num_values * num_steps <= Len(uint8tensor)
             /\ unpacked_idx = i * num_steps + j
       /\ (pc = "loop" /\ i < num_values /\ j < num_steps) =>
             unpacked_idx < Len(uint8tensor)
       /\ ~ (pc = "raised" /\ error.type = "IndexError")
       /\ (pc = "returned" /\ bits \in {1, 2, 4, 8}) =>
             unpacked_idx = Len(uint8tensor)

C24_Witness ==
    /\ op = "pack"
    /\ pc = "loop"
    /\ bits = 3
    /\ Len(uint8tensor) = 8
    /\ num_values = 3
    /\ num_steps = 2
    /\ i = 2
    /\ j = 1
    /\ unpacked_idx = 5

(* C25: unpack index invariant. For every bits in 1..8 and every byte       *)
(* buffer, the output of unpack_weights has len(packed) * 8 // bits cells,  *)
(* every write index is below that length (no IndexError), a write changes  *)
(* the cell at unpacked_idx alone and moves unpacked_idx up by one, so no   *)
(* cell is written twice, and when bits divides 8 the call returns with     *)
(* every cell written.                                                      *)
C25_UnpackIndex ==
    /\ [] ((/\ op = "unpack"
            /\ bits \in 1 .. 8)
           => /\ pc \in {"loop", "returned"} =>
                    /\ Len(unpacked_tensor) * bits <= Len(uint8tensor) * 8
                    /\ Len(unpacked_tensor) * bits > Len(uint8tensor) * 8 - bits
                    /\ unpacked_idx = i * num_steps + j
                    /\ unpacked_idx <= Len(unpacked_tensor)
              /\ (pc = "loop" /\ i < Len(uint8tensor) /\ j < num_steps) =>
                    unpacked_idx < Len(unpacked_tensor)
              /\ ~ (pc = "raised" /\ error.type = "IndexError")
              /\ (pc = "returned" /\ bits \in {1, 2, 4, 8}) =>
                    unpacked_idx = Len(unpacked_tensor))
    /\ [][ (/\ op = "unpack"
            /\ bits \in 1 .. 8
            /\ pc = "loop"
            /\ pc' = "loop")
           => /\ unpacked_idx' = unpacked_idx + 1
              /\ Len(unpacked_tensor') = Len(unpacked_tensor)
              /\ \A k \in 1 .. Len(unpacked_tensor) :
                    k # unpacked_idx + 1 => unpacked_tensor'[k] = unpacked_tensor[k] ]_vars

C25_Witness ==
    /\ op = "unpack"
    /\ pc = "returned"
    /\ bits = 3
    /\ uint8tensor = << 177, 255, 15 >>
    /\ Len(unpacked_tensor) = 8
    /\ unpacked_idx = 6

\* the values an unvalidated element may take
CorruptVals == {0, 1, 3, 4, 15, 16, 177, 255}

(* C26: corruption from an unvalidated element is confined. For supported   *)
(* bits, when pack_weights has returned for v, the call on any v' that      *)
(* differs from v at the one index k (v'[k] any byte, in range or not)      *)
(* returns a buffer of the same length that differs from the buffer of v at *)
(* most in byte k div (8/bits), and the sequences unpack_weights decodes    *)
(* from the two buffers differ only at indices of that byte whose           *)
(* sub-position is at least k mod (8/bits).                                 *)
C26_Confined ==
    (/\ op = "pack"
     /\ pc = "returned"
     /\ bits \in Supported)
    => \A d \in {unpack_weights(packed_tensor, bits).result} :
       \A k \in 0 .. Len(uint8tensor) - 1, x \in CorruptVals :
       \A other_p \in {pack_weights([uint8tensor EXCEPT ![k + 1] = x], bits)} :
       \A other_d \in {unpack_weights(other_p.result, bits).result} :
          /\ other_p.pc = "returned"
          /\ Len(other_p.result) = Len(packed_tensor)
          /\ \A m \in 0 .. Len(packed_tensor) - 1 :
                m # k \div (8 \div bits)
                    => other_p.result[m + 1] = packed_tensor[m + 1]
          /\ Len(other_d) = Len(d)
          /\ \A e \in 0 .. Len(d) - 1 :
                other_d[e + 1] # d[e + 1]
                    => /\ e \div (8 \div bits) = k \div (8 \div bits)
                       /\ e % (8 \div bits) >= k % (8 \div bits)

C26_Witness ==
    /\ op = "pack"
    /\ pc = "returned"
    /\ bits = 4
    /\ uint8tensor = << 255, 1 >>
    /\ packed_tensor = << 255 >>
    /\ pack_weights(<< 15, 1 >>, 4).result = << 31 >>
    /\ unpack_weights(<< 31 >>, 4).result = << 15, 1 >>
    /\ unpack_weights(packed_tensor, 4).result = << 15, 15 >>

(* C27: with bits = 8 both operations are the identity. Every call with     *)
(* bits = 8 runs with packing ratio 1 and shift 0 (and mask 255 in          *)
(* unpack_weights), and every such call that has returned, pack_weights or  *)
(* unpack_weights, returned a tensor equal to its input.                    *)
C27_EightBitIdentity ==
    /\ (bits = 8 /\ pc \in {"loop", "returned"}) =>
          /\ num_steps = 1
          /\ j = 0
          /\ ShiftAmount(bits, j) = 0
          /\ op = "unpack" => mask = 255
    /\ \A n \in 1 .. Len(Completed) :
          Completed[n].bits = 8 => Completed[n].result = Completed[n].arg

C27_Witness ==
    /\ bits = 8
    /\ op = "unpack"
    /\ pc = "returned"
    /\ Len(hist) = 1
    /\ hist[1].op = "pack"
    /\ hist[1].arg = << 255, 4, 15 >>
    /\ hist[1].result = << 255, 4, 15 >>
    /\ unpacked_tensor = << 255, 4, 15 >>

----------------------------------------------------------------------------
(* Linear quantization (notebook "Lesson 4: Quantization Theory"):          *)
(* get_quant_params and quantize_tensor. Real numbers are integers, a scale *)
(* is the fraction num / den; the calls are those whose float arithmetic is *)
(* exact (the scale is a dyadic fraction), and the notebook's own example.  *)

\* the variables of the packing codec
codecvars == << op, uint8tensor, bits, pc, num_values, num_steps, mask, i, j,
                unpacked_idx, packed_tensor, unpacked_tensor, error, hist >>

\* longest tensor handed to quantize_tensor
MaxQuantLen == 2
\* the real values: r_min, r_max and the elements of r
RVals == {-255, -3, -1, 0, 1, 3, 255}
\* the integer ranges (q_min, q_max)
QRanges == {<< -128, 127 >>, << 0, 255 >>, << -2, 1 >>, << 0, 3 >>, << 0, 0 >>}
\* the scales and zero-points handed to quantize_tensor directly
Scales == {[num |-> 1, den |-> 2], [num |-> 1, den |-> 1], [num |-> 2, den |-> 1]}
ZVals == {-128, 0, 3, 127}

\* Python's max and min of two numbers
PyMax(a, b) == IF a >= b THEN a ELSE b
PyMin(a, b) == IF a <= b THEN a ELSE b

\* round(a / b) for b > 0, Python's round and np.round: to the nearest
\* integer, a tie to the even one
RoundHalfEven(a, b) ==
    IF 2 * (a % b) < b THEN a \div b
    ELSE IF 2 * (a % b) > b THEN (a \div b) + 1
    ELSE IF (a \div b) % 2 = 0 THEN a \div b
    ELSE (a \div b) + 1

\* the float num / den is the fraction itself: its lowest-terms denominator
\* is a power of two
ExactScale(sc) == sc.den \div Gcd(sc.num, sc.den) \in {2 ^ k : k \in 0 .. 8}

\* what round(a / b) can yield when the division is done in floats with the
\* scale sc: the rounded quotient, or, at a tie reached through a scale the
\* float only approximates, either neighbour
RoundOutcomes(a, b, sc) ==
    IF 2 * (a % b) = b /\ ~ ExactScale(sc)
    THEN {a \div b, (a \div b) + 1}
    ELSE {RoundHalfEven(a, b)}

\* s = (r_max - r_min) / (q_max - q_min)
Scale(r_min, r_max, q_min, q_max) == [num |-> r_max - r_min, den |-> q_max - q_min]

\* z = int(round(-r_min / s)): -r_min / s = (-r_min * den) / num
ZeroPointOutcomes(r_min, sc) == RoundOutcomes((- r_min) * sc.den, sc.num, sc)

\* z = max(q_min, min(q_max, z))
\* (variant: the line is left out)
Clamp_None(z, q_min, q_max) == z
Clamp(z, q_min, q_max) == PyMax(q_min, PyMin(q_max, z))

\* np.clip(q, q_min, q_max)
Clip(q, q_min, q_max) == IF q < q_min THEN q_min ELSE IF q > q_max THEN q_max ELSE q

\* .astype(np.int8) of an integral float of small magnitude: the conversion
\* goes through a wider integer and keeps its low 8 bits
AsInt8(x) == ((x + 128) % 256) - 128

\* what quantize_tensor can return for the element x:
\* clip(round(x / s) + z, q_min, q_max) as int8, x / s = (x * den) / num
QuantizeOutcomes(x, sc, z, q_min, q_max) ==
    { AsInt8(Clip(y + z, q_min, q_max)) : y \in RoundOutcomes(x * sc.den, sc.num, sc) }

\* the call get_quant_params(r_min, r_max, q_min, q_max) followed by
\* quantize_tensor(r, s, z, q_min, q_max) on what it returned
ParamCalls ==
    { [pc |-> "params", chained |-> TRUE, r_min |-> a, r_max |-> b,
       q_min |-> qr[1], q_max |-> qr[2], s |-> [num |-> 0, den |-> 1], z |-> 0,
       r |-> t, q |-> << >>, error |-> NoError] :
         a \in RVals, b \in RVals, qr \in QRanges,
         t \in SeqsUpTo(RVals, MaxQuantLen) }

\* the call quantize_tensor(r, s, z, q_min, q_max) on a given s and z
DirectCalls ==
    { [pc |-> "quantize", chained |-> FALSE, r_min |-> 0, r_max |-> 0,
       q_min |-> qr[1], q_max |-> qr[2], s |-> sc, z |-> zz,
       r |-> t, q |-> << >>, error |-> NoError] :
         sc \in Scales, zz \in ZVals, qr \in QRanges,
         t \in SeqsUpTo(RVals, MaxQuantLen) }

\* the notebook's example: get_quant_params(-1.0, 1.0) with the default range
NotebookExample(c) ==
    /\ c.r_min = -1
    /\ c.r_max = 1
    /\ c.q_min = -128
    /\ c.q_max = 127

\* get_quant_params as a whole
GetQuantParams ==
    /\ quant.pc = "params"
    /\ IF quant.q_max = quant.q_min
       THEN \* (r_max - r_min) / 0 raises ZeroDivisionError
            quant' = [quant EXCEPT !.pc = "raised",
                         !.error = [type |-> "ZeroDivisionError", arg |-> 0]]
       ELSE IF quant.r_max = quant.r_min
       THEN \* s is 0.0: -r_min / s raises ZeroDivisionError
            quant' = [quant EXCEPT !.pc = "raised",
                         !.s = Scale(quant.r_min, quant.r_max, quant.q_min, quant.q_max),
                         !.error = [type |-> "ZeroDivisionError", arg |-> 0]]
       ELSE \E z \in ZeroPointOutcomes(quant.r_min,
                        Scale(quant.r_min, quant.r_max, quant.q_min, quant.q_max)) :
                quant' = [quant EXCEPT !.pc = "quantize",
                             !.s = Scale(quant.r_min, quant.r_max, quant.q_min, quant.q_max),
                             !.z = Clamp(z, quant.q_min, quant.q_max)]
    /\ UNCHANGED << codecvars, concvars >>

\* quantize_tensor as a whole, element by element
QuantizeTensor ==
    /\ quant.pc = "quantize"
    /\ \E q \in [1 .. Len(quant.r) ->
                    UNION { QuantizeOutcomes(x, quant.s, quant.z,
                                             quant.q_min, quant.q_max) :
                            x \in {quant.r[k] : k \in 1 .. Len(quant.r)} }] :
          /\ \A k \in 1 .. Len(quant.r) :
                q[k] \in QuantizeOutcomes(quant.r[k], quant.s, quant.z,
                                          quant.q_min, quant.q_max)
          /\ quant' = [quant EXCEPT !.pc = "done", !.q = q]
    /\ UNCHANGED << codecvars, concvars >>

InitQuant ==
    /\ op = "none"
    /\ uint8tensor = << >>
    /\ bits = 8
    /\ pc = "none"
    /\ num_values = 0
    /\ num_steps = 0
    /\ mask = 0
    /\ i = 0
    /\ j = 0
    /\ unpacked_idx = 0
    /\ packed_tensor = << >>
    /\ unpacked_tensor = << >>
    /\ error = NoError
    /\ hist = << >>
    /\ other = NoFrame
    /\ shared = FALSE
    /\ atcall = << >>
    /\ quant \in ParamCalls \cup DirectCalls
    /\ quant.chained =>
          /\ quant.r_min <= quant.r_max
          /\ \/ quant.q_max = quant.q_min
             \/ quant.r_max = quant.r_min
             \/ ExactScale(Scale(quant.r_min, quant.r_max, quant.q_min, quant.q_max))
             \/ NotebookExample(quant)

NextQuant ==
    \/ GetQuantParams
    \/ QuantizeTensor

SpecQuant == InitQuant /\ [][NextQuant]_vars

\* quantize_tensor has returned for the s and z get_quant_params returned
\* for a proper real range and a proper integer range
C28_Mapped ==
    /\ quant.pc = "done"
    /\ quant.chained
    /\ quant.r_min < quant.r_max
    /\ quant.q_min < quant.q_max

(* C28: linear quantization maps the real range onto the integer range.     *)
(* With (s, z) = get_quant_params(r_min, r_max, q_min, q_max), r_min <      *)
(* r_max, q_min < q_max and a scale the floats hold exactly, quantize_tensor*)
(* sends an element equal to r_min to q_min, one equal to r_max to q_max,   *)
(* and every element of [r_min, r_max] to round(r / s) + z, the clip and    *)
(* the cast leaving that value as it is.                                    *)
C28_LinearMap ==
    (/\ C28_Mapped
     /\ ExactScale(quant.s))
    => \A k \in 1 .. Len(quant.r) :
          /\ quant.r[k] = quant.r_min => quant.q[k] = quant.q_min
          /\ quant.r[k] = quant.r_max => quant.q[k] = quant.q_max
          /\ (quant.r_min <= quant.r[k] /\ quant.r[k] <= quant.r_max) =>
                quant.q[k] =
                    RoundHalfEven(quant.r[k] * quant.s.den, quant.s.num) + quant.z

(* C29: quantized values stay in the target range. For every scale s > 0,   *)
(* every zero-point and every q_min <= q_max handed to quantize_tensor,     *)
(* ranges beyond the signed 8-bit one such as 0..255 included, every        *)
(* returned element q has q_min <= q <= q_max.                              *)
C29_InTargetRange ==
    (/\ quant.pc = "done"
     /\ quant.s.num > 0
     /\ quant.q_min <= quant.q_max)
    => \A k \in 1 .. Len(quant.q) :
          /\ quant.q_min <= quant.q[k]
          /\ quant.q[k] <= quant.q_max

(* C30: the zero-point is clamped into the integer range. For r_min < r_max *)
(* and q_min < q_max get_quant_params does not raise and returns an integer *)
(* z with q_min <= z <= q_max, also when round(-r_min / s) lies outside the *)
(* range, as for r_min = -1, r_max = 1 and the range -128..127, where the   *)
(* rounded value is 128 and z is 127.                                       *)
C30_ZeroPointClamped ==
    (/\ quant.pc # "none"
     /\ quant.chained
     /\ quant.r_min < quant.r_max
     /\ quant.q_min < quant.q_max)
    => /\ quant.pc # "raised"
       /\ quant.pc \in {"quantize", "done"} =>
             /\ quant.z \in quant.q_min .. quant.q_max
             /\ NotebookExample(quant) => quant.z = 127

C30_Witness ==
    /\ quant.pc = "quantize"
    /\ quant.chained
    /\ NotebookExample(quant)
    /\ quant.s = [num |-> 2, den |-> 255]
    /\ 128 \in ZeroPointOutcomes(quant.r_min, quant.s)
    /\ quant.z = 127
====
